---- MODULE Spec2Model ----
(***************************************************************************)
(* benchsort (cmd/benchsort/main.go): the "gen" command writes data.out,   *)
(* a 24-byte header followed by length-prefixed rows; the "run" command    *)
(* loads a ratio-sized prefix of it.  The file is a sequence of bytes, an  *)
(* int64 is its 8 big-endian two's complement bytes, and the float64       *)
(* arithmetic of load is carried out on 53-bit mantissas.                  *)
(***************************************************************************)
EXTENDS Integers, Sequences, FiniteSets, TLC

VARIABLES
    fileExists,   \* data.out exists in tmpDir
    fileBytes,    \* its contents
    tampered,     \* data.out was changed by something other than export
    pc,           \* where the process is
    cmd,          \* "gen", "run", or "call" for a direct call of load
    scale,        \* the package-level variables of main.go
    keySize,
    valSize,
    ratio,        \* the ratio load is called with
    logMsg,       \* what log.Fatal reported, if it was called
    outputBytes,  \* export's buffer
    rnd,          \* export's random source
    expI,         \* export's loop counter
    written,      \* export's writes: the length of each
    genRows,      \* the rows nextRow handed to encodeRow, in order
    res           \* what load returned, and what it did to get there

vars == <<fileExists, fileBytes, tampered, pc, cmd, scale, keySize, valSize,
          ratio, logMsg, outputBytes, rnd, expI, written, genRows, res>>

(***************************************************************************)
(* Bounds of the model.                                                    *)
(***************************************************************************)
MaxScale == 2        \* gen -scale ranges over 1..MaxScale
MaxKeySize == 2      \* gen -keySize ranges over 1..MaxKeySize
MaxValSize == 1      \* gen -valSize ranges over 1..MaxValSize
MaxSeed == 0         \* the random source is seeded from 0..MaxSeed
RngMod == 5          \* the random source draws from 0..RngMod-1
MaxTruncLen == 70    \* a truncation leaves at most this many bytes
MaxTamperRec == 2    \* records whose length or tag is tampered: the first few
MaxHdrVal == 2       \* a foreign header holds fields up to this value

\* Two larger datasets: the scenario of the specification (scale 10,
\* keySize 2, valSize 1) and the smallest scale at which scale * ratio / 100
\* is a whole number that float64 arithmetic misses.
BigConfigs == {<<10, 2, 1>>, <<50, 1, 1>>}

\* gen's flags: every shape within the bounds, the two larger datasets, and
\* flags that main rejects
BadConfigs == {<<0, 1, 1>>, <<1, 0, 1>>, <<1, 1, 0>>, <<0, 0, 0>>, <<-1, 1, 1>>}

GenConfigs ==
    ((1..MaxScale) \X (1..MaxKeySize) \X (1..MaxValSize)) \cup BigConfigs \cup BadConfigs

\* Ratios a load is asked for.  An untampered file is loaded at every ratio
\* of AllRatios; a tampered one at SampleRatios.
AllRatios == (-1..101) \cup {150}
SampleRatios == {-1, 0, 1, 50, 100, 150}

(***************************************************************************)
(* Program constants.                                                      *)
(***************************************************************************)
DefaultKeySize == 8
DefaultValSize == 8
DefaultScale == 100
DefaultRatio == 100
MetaLen == 24
HeadLen == 8
MantBits == 53       \* float64: 53 significant bits
intFlag == 3         \* codec: the tag of a signed integer
IntLen == 8          \* codec: the payload of a signed integer

(***************************************************************************)
(* Bytes and integers.                                                     *)
(***************************************************************************)
Min(a, b) == IF a < b THEN a ELSE b

\* binary.BigEndian.PutUint64 for 0 <= n < 2^31
PutUint64(n) ==
    <<0, 0, 0, 0, (n \div 16777216) % 256, (n \div 65536) % 256,
      (n \div 256) % 256, n % 256>>

\* The 8 bytes of uint64(n) for an int n the model writes: -1 is 0xFF..FF.
Uint64Bytes(n) ==
    IF n >= 0 THEN PutUint64(n)
    ELSE <<255, 255, 255, 255, 255, 255, 255, 255>>

IntCap == 1073741823

\* int(binary.BigEndian.Uint64(b)): negative when the top bit is set (any
\* negative value reads as -1: the program only tests its sign), exact below
\* IntCap, IntCap from there on.
IntOfUint64(b) ==
    IF b[1] >= 128 THEN -1
    ELSE IF b[1] # 0 \/ b[2] # 0 \/ b[3] # 0 \/ b[4] # 0 \/ b[5] >= 64 THEN IntCap
    ELSE ((b[5] * 256 + b[6]) * 256 + b[7]) * 256 + b[8]

\* what fd.Read(buf) with len(buf) = want returns at offset rdPos
ReadN(bytes, rdPos, want) == Min(want, Len(bytes) - rdPos)

Slice(bytes, from, count) == SubSeq(bytes, from + 1, from + count)

(***************************************************************************)
(* types.Datum: an int64 datum carries its 8 big-endian two's complement   *)
(* bytes; the zero Datum is null.                                          *)
(***************************************************************************)
NullDatum == [k |-> "null", b |-> <<>>]
NewIntDatum(n) == [k |-> "int", b |-> PutUint64(n)]
GetInt64(dt) == IF dt.k = "int" THEN dt.b ELSE PutUint64(0)

(***************************************************************************)
(* math/rand: the source is a function of its seed.                        *)
(***************************************************************************)
RndNext(st) == (st * 3 + 1) % RngMod

RECURSIVE RndDatums(_, _, _)
RndDatums(st, cnt, accD) ==
    IF cnt = 0 THEN [st |-> st, ds |-> accD]
    ELSE LET nst == RndNext(st)
             nacc == Append(accD, NewIntDatum(nst))
         IN IF Len(nacc) > 0 THEN RndDatums(nst, cnt - 1, nacc)
            ELSE [st |-> st, ds |-> accD]

nextRow(st, kS, vS) ==
    LET keyD == RndDatums(st, kS, <<>>)
        valD == RndDatums(keyD.st, vS, <<>>)
        hSt == RndNext(valD.st)
    IN [st |-> hSt,
        row |-> [key |-> keyD.ds, val |-> valD.ds, handle |-> PutUint64(hSt)]]

(***************************************************************************)
(* util/codec: EncodeKey writes each datum as a tag and a payload, Decode  *)
(* reads scalars until the bytes run out.                                  *)
(***************************************************************************)
\* EncodeIntToCmpUint and back: the sign bit is flipped
FlipSign(b8) == <<(b8[1] + 128) % 256>> \o SubSeq(b8, 2, Len(b8))

EncodeOne(dt) == <<intFlag>> \o FlipSign(dt.b)

RECURSIVE EncodeKey(_, _)
EncodeKey(buf, datums) ==
    IF datums = <<>> THEN buf
    ELSE EncodeKey(buf \o EncodeOne(Head(datums)), Tail(datums))

RECURSIVE DecodeAll(_, _, _)
DecodeAll(payload, at, accV) ==
    IF at >= Len(payload) THEN [ok |-> TRUE, vals |-> accV]
    ELSE IF payload[at + 1] # intFlag THEN [ok |-> FALSE, vals |-> <<>>]
    ELSE IF Len(payload) - (at + 1) < IntLen THEN [ok |-> FALSE, vals |-> <<>>]
    ELSE LET nv == Append(accV, [k |-> "int",
                                 b |-> FlipSign(Slice(payload, at + 1, IntLen))])
         IN IF Len(nv) > 0 THEN DecodeAll(payload, at + 1 + IntLen, nv)
            ELSE [ok |-> FALSE, vals |-> <<>>]

\* codec.Decode(b, size): size is the capacity of the result, not a check
Decode(payload, size) ==
    IF Len(payload) < 1 THEN [ok |-> FALSE, vals |-> <<>>]
    ELSE DecodeAll(payload, 0, <<>>)

(***************************************************************************)
(* encodeRow and decodeRow                                                 *)
(***************************************************************************)
\* RowBody with the values written before the keys
RowBodyValsFirst(row) ==
    EncodeKey(EncodeKey(EncodeKey(<<>>, row.val), row.key),
              <<[k |-> "int", b |-> row.handle]>>)

RowBody(row) ==
    EncodeKey(EncodeKey(EncodeKey(<<>>, row.key), row.val),
              <<[k |-> "int", b |-> row.handle]>>)

encodeRow(buf, row) == buf \o PutUint64(Len(RowBody(row))) \o RowBody(row)

\* dcod[lo:hi] of a slice of length Len(vals) and capacity at least hi:
\* the elements past the length are zero Datums
SliceCap(vals, lo, hi) ==
    [idx \in 1..(hi - lo) |->
        IF lo + idx <= Len(vals) THEN vals[lo + idx] ELSE NullDatum]

\* decodeRow through a reader that buffers ahead: the row is the same, the
\* file is left at its end
decodeRowReadAhead(bytes, rdPos, kS, vS) ==
    LET n1 == ReadN(bytes, rdPos, HeadLen)
        rowSize == IntOfUint64(Slice(bytes, rdPos, HeadLen))
        pos1 == rdPos + HeadLen
        n2 == ReadN(bytes, pos1, rowSize)
        dcod == Decode(Slice(bytes, pos1, rowSize), kS + vS + 1)
    IN IF n1 # HeadLen
         THEN [st |-> "error", msg |-> "incorrect header", pos |-> Len(bytes)]
       ELSE IF rowSize < 0
         THEN [st |-> "panic", msg |-> "makeslice: len out of range", pos |-> Len(bytes)]
       ELSE IF n2 # rowSize
         THEN [st |-> "error", msg |-> "incorrect row", pos |-> Len(bytes)]
       ELSE IF ~dcod.ok
         THEN [st |-> "error", msg |-> "decode", pos |-> Len(bytes)]
       ELSE IF Len(dcod.vals) < kS + vS + 1
         THEN [st |-> "panic", msg |-> "index out of range", pos |-> Len(bytes)]
       ELSE [st |-> "ok", msg |-> "", pos |-> Len(bytes),
             row |-> [key |-> SubSeq(dcod.vals, 1, kS),
                      val |-> SubSeq(dcod.vals, kS + 1, kS + vS),
                      handle |-> GetInt64(dcod.vals[kS + vS + 1])]]

\* decodeRow(fd) with fd at offset rdPos.  st is "ok", "error" or "panic";
\* pos is the offset fd is left at.
decodeRow(bytes, rdPos, kS, vS) ==
    LET n1 == ReadN(bytes, rdPos, HeadLen)
        rowSize == IntOfUint64(Slice(bytes, rdPos, HeadLen))
        pos1 == rdPos + HeadLen
        n2 == ReadN(bytes, pos1, rowSize)
        dcod == Decode(Slice(bytes, pos1, rowSize), kS + vS + 1)
    IN IF n1 # HeadLen
         THEN [st |-> "error", msg |-> "incorrect header", pos |-> rdPos + n1]
       ELSE IF rowSize < 0
         THEN [st |-> "panic", msg |-> "makeslice: len out of range", pos |-> pos1]
       ELSE IF n2 # rowSize
         THEN [st |-> "error", msg |-> "incorrect row", pos |-> pos1 + n2]
       ELSE IF ~dcod.ok
         THEN [st |-> "error", msg |-> "decode", pos |-> pos1 + n2]
       ELSE IF Len(dcod.vals) < kS + vS + 1
         THEN [st |-> "panic", msg |-> "index out of range", pos |-> pos1 + n2]
       ELSE [st |-> "ok", msg |-> "", pos |-> pos1 + n2,
             row |-> [key |-> SliceCap(dcod.vals, 0, kS),
                      val |-> SliceCap(dcod.vals, kS, kS + vS),
                      handle |-> GetInt64(dcod.vals[kS + vS + 1])]]

(***************************************************************************)
(* encodeMeta and decodeMeta                                               *)
(***************************************************************************)
encodeMeta(buf, sc, kS, vS) ==
    buf \o Uint64Bytes(sc) \o Uint64Bytes(kS) \o Uint64Bytes(vS)

\* decodeMeta that lets a zero field through: each test is < 0
decodeMetaNoZero(bytes, g0) ==
    LET nm == ReadN(bytes, 0, MetaLen)
        sc == IntOfUint64(Slice(bytes, 0, 8))
        kS == IntOfUint64(Slice(bytes, 8, 8))
        vS == IntOfUint64(Slice(bytes, 16, 8))
    IN IF nm # MetaLen
         THEN [ok |-> FALSE, msg |-> "incorrect meta data", pos |-> nm,
               scale |-> g0.scale, keySize |-> g0.keySize, valSize |-> g0.valSize]
       ELSE IF sc < 0
         THEN [ok |-> FALSE, msg |-> "number of rows must be positive", pos |-> nm,
               scale |-> sc, keySize |-> g0.keySize, valSize |-> g0.valSize]
       ELSE IF kS < 0
         THEN [ok |-> FALSE, msg |-> "key size must be positive", pos |-> nm,
               scale |-> sc, keySize |-> kS, valSize |-> g0.valSize]
       ELSE IF vS < 0
         THEN [ok |-> FALSE, msg |-> "value size must be positive", pos |-> nm,
               scale |-> sc, keySize |-> kS, valSize |-> vS]
       ELSE [ok |-> TRUE, msg |-> "", pos |-> nm,
             scale |-> sc, keySize |-> kS, valSize |-> vS]

\* decodeMeta(fd) with fd at offset 0.  The package-level scale, keySize,
\* valSize are assigned one by one, each before it is tested; g0 holds
\* their values on entry.
decodeMeta(bytes, g0) ==
    LET nm == ReadN(bytes, 0, MetaLen)
        sc == IntOfUint64(Slice(bytes, 0, 8))
        kS == IntOfUint64(Slice(bytes, 8, 8))
        vS == IntOfUint64(Slice(bytes, 16, 8))
    IN IF nm # MetaLen
         THEN [ok |-> FALSE, msg |-> "incorrect meta data", pos |-> nm,
               scale |-> g0.scale, keySize |-> g0.keySize, valSize |-> g0.valSize]
       ELSE IF sc <= 0
         THEN [ok |-> FALSE, msg |-> "number of rows must be positive", pos |-> nm,
               scale |-> sc, keySize |-> g0.keySize, valSize |-> g0.valSize]
       ELSE IF kS <= 0
         THEN [ok |-> FALSE, msg |-> "key size must be positive", pos |-> nm,
               scale |-> sc, keySize |-> kS, valSize |-> g0.valSize]
       ELSE IF vS <= 0
         THEN [ok |-> FALSE, msg |-> "value size must be positive", pos |-> nm,
               scale |-> sc, keySize |-> kS, valSize |-> vS]
       ELSE [ok |-> TRUE, msg |-> "", pos |-> nm,
             scale |-> sc, keySize |-> kS, valSize |-> vS]

(***************************************************************************)
(* float64 arithmetic.  A positive float64 is [bits, exp]: bits is the     *)
(* mantissa, most significant bit first, and the value is bits * 2^exp.    *)
(* Division and multiplication round to nearest, ties to even.             *)
(***************************************************************************)
RECURSIVE ShiftUp(_, _)
ShiftUp(num, den) ==
    IF num >= den THEN [n |-> num, k |-> 0]
    ELSE LET su == ShiftUp(2 * num, den) IN [n |-> su.n, k |-> su.k + 1]

RECURSIVE ShiftDown(_, _)
ShiftDown(num, den) ==
    IF num < 2 * den THEN [d |-> den, k |-> 0]
    ELSE LET sd == ShiftDown(num, 2 * den) IN [d |-> sd.d, k |-> sd.k + 1]

RECURSIVE DivBits(_, _, _, _)
DivBits(rem, den, qbits, count) ==
    IF count = 0 THEN [bits |-> qbits, rem |-> rem]
    ELSE LET rem2 == 2 * rem
             qb == IF rem2 >= den THEN 1 ELSE 0
             nq == Append(qbits, qb)
         IN IF Len(nq) > 0 THEN DivBits(rem2 - qb * den, den, nq, count - 1)
            ELSE [bits |-> nq, rem |-> rem]

RECURSIVE IncBits(_)
IncBits(ib) ==
    IF ib = <<>> THEN <<>>
    ELSE IF ib[Len(ib)] = 0 THEN Append(SubSeq(ib, 1, Len(ib) - 1), 1)
    ELSE Append(IncBits(SubSeq(ib, 1, Len(ib) - 1)), 0)

AllOnes(ob) == \A oi \in 1..Len(ob) : ob[oi] = 1

RoundUp(rb, rexp, carryIn) ==
    IF ~carryIn THEN [bits |-> rb, exp |-> rexp]
    ELSE IF AllOnes(rb)
         THEN [bits |-> <<1>> \o SubSeq(IncBits(rb), 2, Len(rb)), exp |-> rexp + 1]
         ELSE [bits |-> IncBits(rb), exp |-> rexp]

\* float64(num) / float64(den) for small positive integers
FloatDiv(num, den) ==
    LET fu == ShiftUp(num, den)
        fd == ShiftDown(fu.n, den)
        fq == DivBits(fu.n - fd.d, fd.d, <<1>>, MantBits - 1)
        isUp == \/ 2 * fq.rem > fd.d
                \/ 2 * fq.rem = fd.d /\ fq.bits[MantBits] = 1
    IN RoundUp(fq.bits, (fd.k - fu.k) - (MantBits - 1), isUp)

RECURSIVE IntBits(_)
IntBits(nn) == IF nn = 0 THEN <<>> ELSE Append(IntBits(nn \div 2), nn % 2)

RECURSIVE MulBits(_, _, _, _, _)
MulBits(mb, mk, mi, carry, macc) ==
    IF mi = 0 THEN IntBits(carry) \o macc
    ELSE LET mt == mb[mi] * mk + carry
             na == <<mt % 2>> \o macc
         IN IF Len(na) > 0 THEN MulBits(mb, mk, mi - 1, mt \div 2, na) ELSE na

\* float64(mk) * fl for an integer 0 < mk <= IntCap
FloatMulInt(mk, fl) ==
    LET prod == MulBits(fl.bits, mk, Len(fl.bits), 0, <<>>)
        extra == Len(prod) - MantBits
    IN IF extra <= 0 THEN [bits |-> prod, exp |-> fl.exp]
       ELSE LET keep == SubSeq(prod, 1, MantBits)
                rest == SubSeq(prod, MantBits + 1, Len(prod))
                sticky == \E ri \in 2..Len(rest) : rest[ri] = 1
                prodUp == rest[1] = 1 /\ (sticky \/ keep[MantBits] = 1)
            IN RoundUp(keep, fl.exp + extra, prodUp)

RECURSIVE BitsToInt(_)
BitsToInt(tb) ==
    IF tb = <<>> THEN 0
    ELSE 2 * BitsToInt(SubSeq(tb, 1, Len(tb) - 1)) + tb[Len(tb)]

\* int(f): the integer part
FloatToInt(fl) ==
    IF Len(fl.bits) + fl.exp <= 0 THEN 0
    ELSE BitsToInt(SubSeq(fl.bits, 1, Len(fl.bits) + fl.exp))

\* float64(rt) / 100.0 for the ratios of the model, computed once
RatioQuotient == [rt \in 1..150 |-> FloatDiv(rt, 100)]

\* TotalRows that takes the ratio for the share to leave out
TotalRowsInverted(sc, rt) ==
    IF rt = 100 THEN 0
    ELSE LET absR == IF 100 - rt < 0 THEN rt - 100 ELSE 100 - rt
             rows == FloatToInt(FloatMulInt(sc, FloatDiv(absR, 100)))
         IN IF 100 - rt < 0 THEN -rows ELSE rows

\* int(float64(scale) * (float64(ratio) / 100.0)) for scale > 0
TotalRows(sc, rt) ==
    IF rt = 0 THEN 0
    ELSE LET absR == IF rt < 0 THEN -rt ELSE rt
             quot == IF absR \in DOMAIN RatioQuotient THEN RatioQuotient[absR]
                     ELSE FloatDiv(absR, 100)
             rows == FloatToInt(FloatMulInt(sc, quot))
         IN IF rt < 0 THEN -rows ELSE rows

(***************************************************************************)
(* load                                                                    *)
(***************************************************************************)
NoRes == [st |-> "none", msg |-> "", data |-> <<>>, pos |-> 0, decodes |-> 0,
          opened |-> FALSE, totalRows |-> 0]

\* LoadRows whose loop stops one turn early: i < totalRows
RECURSIVE LoadRowsOffByOne(_, _, _, _, _, _, _)
LoadRowsOffByOne(bytes, rdPos, kS, vS, li, total, rowsAcc) ==
    IF li >= total
      THEN [st |-> "ok", msg |-> "", data |-> rowsAcc, pos |-> rdPos,
            decodes |-> li - 1, opened |-> TRUE, totalRows |-> total]
    ELSE LET dr == decodeRow(bytes, rdPos, kS, vS)
         IN IF dr.st # "ok"
              THEN [st |-> dr.st, msg |-> dr.msg, data |-> <<>>, pos |-> dr.pos,
                    decodes |-> li, opened |-> TRUE, totalRows |-> total]
            ELSE LoadRowsOffByOne(bytes, dr.pos, kS, vS, li + 1, total,
                                  Append(rowsAcc, dr.row))

RECURSIVE LoadRows(_, _, _, _, _, _, _)
LoadRows(bytes, rdPos, kS, vS, li, total, rowsAcc) ==
    IF li > total
      THEN [st |-> "ok", msg |-> "", data |-> rowsAcc, pos |-> rdPos,
            decodes |-> li - 1, opened |-> TRUE, totalRows |-> total]
    ELSE LET dr == decodeRow(bytes, rdPos, kS, vS)
         IN IF dr.st # "ok"
              THEN [st |-> dr.st, msg |-> dr.msg, data |-> <<>>, pos |-> dr.pos,
                    decodes |-> li, opened |-> TRUE, totalRows |-> total]
            ELSE LoadRows(bytes, dr.pos, kS, vS, li + 1, total,
                          Append(rowsAcc, dr.row))

\* load(ratio): what it returns (st, msg, data), what it did (pos, decodes,
\* opened) and the package-level variables it leaves (meta).
load(exists, bytes, rt, g0) ==
    LET meta == decodeMeta(bytes, g0)
    IN IF ~exists
         THEN [ret |-> [NoRes EXCEPT !.st = "error",
                                     !.msg = "data file (data.out) does not exist"],
               meta |-> [ok |-> FALSE, msg |-> "", pos |-> 0, scale |-> g0.scale,
                         keySize |-> g0.keySize, valSize |-> g0.valSize]]
       ELSE IF ~meta.ok
         THEN [ret |-> [NoRes EXCEPT !.st = "error", !.msg = meta.msg,
                                     !.pos = meta.pos, !.opened = TRUE],
               meta |-> meta]
       ELSE IF meta.scale >= IntCap
         THEN [ret |-> [NoRes EXCEPT !.st = "panic",
                                     !.msg = "makeslice: cap out of range",
                                     !.pos = meta.pos, !.opened = TRUE],
               meta |-> meta]
       ELSE [ret |-> LoadRows(bytes, meta.pos, meta.keySize, meta.valSize, 1,
                              TotalRows(meta.scale, rt), <<>>),
             meta |-> meta]

(***************************************************************************)
(* The process: main parses a command, checks it and runs export or load.  *)
(***************************************************************************)
Globals == [scale |-> scale, keySize |-> keySize, valSize |-> valSize]

exportVars == <<outputBytes, rnd, expI, written, genRows>>
fileVars == <<fileExists, fileBytes, tampered>>

Init ==
    /\ fileExists = FALSE
    /\ fileBytes = <<>>
    /\ tampered = FALSE
    /\ pc = "idle"
    /\ cmd = "none"
    /\ scale = DefaultScale
    /\ keySize = DefaultKeySize
    /\ valSize = DefaultValSize
    /\ ratio = DefaultRatio
    /\ logMsg = ""
    /\ outputBytes = <<>>
    /\ rnd = 0
    /\ expI = 0
    /\ written = <<>>
    /\ genRows = <<>>
    /\ res = NoRes

\* GenCmd whose OpenFile lacks O_TRUNC: the old bytes stay until overwritten
GenCmdNoTrunc(sc, kS, vS) ==
    /\ pc = "idle"
    /\ cmd' = "gen"
    /\ scale' = sc
    /\ keySize' = kS
    /\ valSize' = vS
    /\ IF kS <= 0 \/ vS <= 0 \/ sc <= 0
         THEN /\ pc' = "fatal"
              /\ logMsg' = IF kS <= 0 THEN "key size must be positive"
                           ELSE IF vS <= 0 THEN "value size must be positive"
                           ELSE "scale must be positive"
              /\ UNCHANGED <<fileVars, outputBytes, written, genRows>>
         ELSE /\ pc' = "export_meta"
              /\ logMsg' = ""
              /\ fileExists' = TRUE
              /\ fileBytes' = fileBytes
              /\ tampered' = FALSE
              /\ outputBytes' = <<>>
              /\ written' = <<>>
              /\ genRows' = <<>>
    /\ UNCHANGED <<ratio, rnd, expI, res>>

\* main, "gen": the flags are parsed into the package-level variables and
\* checked, keySize first; then export is called and opens data.out with
\* O_WRONLY|O_CREATE|O_TRUNC
GenCmd(sc, kS, vS) ==
    /\ pc = "idle"
    /\ cmd' = "gen"
    /\ scale' = sc
    /\ keySize' = kS
    /\ valSize' = vS
    /\ IF kS <= 0 \/ vS <= 0 \/ sc <= 0
         THEN /\ pc' = "fatal"
              /\ logMsg' = IF kS <= 0 THEN "key size must be positive"
                           ELSE IF vS <= 0 THEN "value size must be positive"
                           ELSE "scale must be positive"
              /\ UNCHANGED <<fileVars, outputBytes, written, genRows>>
         ELSE /\ pc' = "export_meta"
              /\ logMsg' = ""
              /\ fileExists' = TRUE
              /\ fileBytes' = <<>>
              /\ tampered' = FALSE
              /\ outputBytes' = <<>>
              /\ written' = <<>>
              /\ genRows' = <<>>
    /\ UNCHANGED <<ratio, rnd, expI, res>>

\* export: encodeMeta, then the random source is seeded from the clock
ExportMeta ==
    /\ pc = "export_meta"
    /\ outputBytes' = encodeMeta(outputBytes, scale, keySize, valSize)
    /\ \E seed \in 0..MaxSeed : rnd' = seed
    /\ expI' = 1
    /\ pc' = "export_rows"
    /\ UNCHANGED <<fileVars, cmd, scale, keySize, valSize, ratio, logMsg,
                   written, genRows, res>>

\* export: one turn of the loop
ExportRow ==
    /\ pc = "export_rows"
    /\ expI <= scale
    /\ LET nr == nextRow(rnd, keySize, valSize)
       IN /\ outputBytes' = encodeRow(outputBytes, nr.row)
          /\ rnd' = nr.st
          /\ genRows' = Append(genRows, nr.row)
    /\ expI' = expI + 1
    /\ UNCHANGED <<fileVars, pc, cmd, scale, keySize, valSize, ratio, logMsg,
                   written, res>>

\* export: the loop is over, outputFile.Write(outputBytes)
ExportWrite ==
    /\ pc = "export_rows"
    /\ expI > scale
    /\ fileBytes' = outputBytes \o SubSeq(fileBytes, Len(outputBytes) + 1, Len(fileBytes))
    /\ written' = Append(written, Len(outputBytes))
    /\ pc' = "done"
    /\ UNCHANGED <<fileExists, tampered, cmd, scale, keySize, valSize, ratio,
                   logMsg, outputBytes, rnd, expI, genRows, res>>

\* load(rt), from either caller
DoLoad(rt) ==
    LET lr == load(fileExists, fileBytes, rt, Globals)
    IN /\ res' = lr.ret
       /\ scale' = lr.meta.scale
       /\ keySize' = lr.meta.keySize
       /\ valSize' = lr.meta.valSize
       /\ ratio' = rt

\* the ratios the model asks for
Ratios == IF tampered THEN SampleRatios ELSE AllRatios

\* main, "run": the flags are checked, then load(inputRatio)
RunCmd(bufSz, inR, outR) ==
    /\ pc = "idle"
    /\ cmd' = "run"
    /\ IF bufSz <= 0
         THEN /\ pc' = "fatal" /\ logMsg' = "buffer size must be positive"
              /\ UNCHANGED <<scale, keySize, valSize, ratio, res>>
       ELSE IF inR < 0 \/ inR > 100
         THEN /\ pc' = "fatal"
              /\ logMsg' = "input ratio must between 0 and 100 (inclusive)"
              /\ UNCHANGED <<scale, keySize, valSize, ratio, res>>
       ELSE IF outR < 0 \/ outR > 100
         THEN /\ pc' = "fatal"
              /\ logMsg' = "output ratio must between 0 and 100 (inclusive)"
              /\ UNCHANGED <<scale, keySize, valSize, ratio, res>>
       ELSE /\ DoLoad(inR)
            /\ pc' = IF res'.st = "ok" THEN "done" ELSE "fatal"
            /\ logMsg' = res'.msg
    /\ UNCHANGED <<fileVars, exportVars>>

\* load(rt) called directly, as a test of it would
CallLoad(rt) ==
    /\ pc = "idle"
    /\ cmd' = "call"
    /\ DoLoad(rt)
    /\ pc' = "done"
    /\ logMsg' = ""
    /\ UNCHANGED <<fileVars, exportVars>>

\* the process is over; the next one starts with the flags' defaults
Restart ==
    /\ pc \in {"done", "fatal"}
    /\ pc' = "idle"
    /\ cmd' = "none"
    /\ scale' = DefaultScale
    /\ keySize' = DefaultKeySize
    /\ valSize' = DefaultValSize
    /\ ratio' = DefaultRatio
    /\ logMsg' = ""
    /\ outputBytes' = <<>>
    /\ rnd' = 0
    /\ expI' = 0
    /\ written' = <<>>
    /\ res' = NoRes
    /\ UNCHANGED <<fileVars, genRows>>

(***************************************************************************)
(* data.out as load may find it: cut short, or with a header, a record     *)
(* length or a tag that export did not write.                              *)
(***************************************************************************)
CanTamper == pc = "idle" /\ fileExists /\ ~tampered

Patch(bytes, from, patch) ==
    SubSeq(bytes, 1, from) \o patch \o SubSeq(bytes, from + Len(patch) + 1, Len(bytes))

\* the offset of record recNo in a file whose records are whole
RECURSIVE RecOffset(_, _, _)
RecOffset(bytes, recNo, from) ==
    IF from + HeadLen > Len(bytes) THEN -1
    ELSE IF recNo = 1 THEN from
    ELSE RecOffset(bytes, recNo - 1,
                   from + HeadLen + IntOfUint64(Slice(bytes, from, HeadLen)))

tamperUnchanged == <<fileExists, pc, cmd, scale, keySize, valSize, ratio, logMsg,
                     exportVars, res>>

Truncate(newLen) ==
    /\ CanTamper
    /\ newLen < Len(fileBytes)
    /\ fileBytes' = SubSeq(fileBytes, 1, newLen)
    /\ tampered' = TRUE
    /\ UNCHANGED tamperUnchanged

SetHeader(sc, kS, vS) ==
    /\ CanTamper
    /\ Len(fileBytes) >= MetaLen
    /\ fileBytes' = Patch(fileBytes, 0, encodeMeta(<<>>, sc, kS, vS))
    /\ fileBytes' # fileBytes
    /\ tampered' = TRUE
    /\ UNCHANGED tamperUnchanged

SetRecordLen(recNo, delta, toNeg) ==
    /\ CanTamper
    /\ LET off == RecOffset(fileBytes, recNo, MetaLen)
           cur == IntOfUint64(Slice(fileBytes, off, HeadLen))
       IN /\ off >= 0
          /\ toNeg \/ cur + delta >= 0
          /\ fileBytes' = Patch(fileBytes, off,
                                Uint64Bytes(IF toNeg THEN -1 ELSE cur + delta))
    /\ tampered' = TRUE
    /\ UNCHANGED tamperUnchanged

SetTag(recNo, scalarNo) ==
    /\ CanTamper
    /\ LET off == RecOffset(fileBytes, recNo, MetaLen)
           tagAt == off + HeadLen + (scalarNo - 1) * (1 + IntLen)
       IN /\ off >= 0
          /\ tagAt < Len(fileBytes)
          /\ tagAt < off + HeadLen + IntOfUint64(Slice(fileBytes, off, HeadLen))
          /\ fileBytes' = Patch(fileBytes, tagAt, <<0>>)
    /\ tampered' = TRUE
    /\ UNCHANGED tamperUnchanged

Next ==
    \/ \E cfg \in GenConfigs : GenCmd(cfg[1], cfg[2], cfg[3])
    \/ ExportMeta
    \/ ExportRow
    \/ ExportWrite
    \/ \E bufSz \in {0, 1}, inR \in Ratios, outR \in {-1, 100, 101} : RunCmd(bufSz, inR, outR)
    \/ \E rt \in Ratios : CallLoad(rt)
    \/ Restart
    \/ \E newLen \in 0..MaxTruncLen : Truncate(newLen)
    \/ \E sc \in -1..MaxHdrVal, kS \in -1..MaxHdrVal, vS \in -1..MaxHdrVal :
          SetHeader(sc, kS, vS)
    \/ \E recNo \in 1..MaxTamperRec, delta \in {-1, 1}, toNeg \in BOOLEAN :
          SetRecordLen(recNo, delta, toNeg)
    \/ \E recNo \in 1..MaxTamperRec, scalarNo \in 1..(MaxKeySize + MaxValSize + 1) :
          SetTag(recNo, scalarNo)

Spec == Init /\ [][Next]_vars

(***************************************************************************)
(* What the properties speak of.                                           *)
(***************************************************************************)
DefaultGlobals ==
    [scale |-> DefaultScale, keySize |-> DefaultKeySize, valSize |-> DefaultValSize]

\* load was called and is over
Loaded == pc \in {"done", "fatal"} /\ cmd \in {"run", "call"} /\ res.st # "none"

\* data.out is as export wrote it
WellFormedFile == fileExists /\ ~tampered

IsPrefix(pre, whole) ==
    Len(pre) <= Len(whole) /\ pre = SubSeq(whole, 1, Len(pre))

\* field fieldNo (1: scale, 2: keySize, 3: valSize) of the header on disk
HdrField(fieldNo) == IntOfUint64(Slice(fileBytes, 8 * (fieldNo - 1), 8))

HeaderValid ==
    /\ Len(fileBytes) >= MetaLen
    /\ HdrField(1) > 0 /\ HdrField(2) > 0 /\ HdrField(3) > 0

\* the length field of the record at off, as the unsigned number it is:
\* more than any file holds when the top bit is set
DeclaredTooLong(bytes, off) ==
    \/ bytes[off + 1] >= 128
    \/ IntOfUint64(Slice(bytes, off, HeadLen)) > Len(bytes) - (off + HeadLen)

\* what is wrong with the record at off: "header" (fewer than 8 bytes),
\* "payload" (fewer bytes than declared), "undecodable", or "none"
RecordFault(bytes, off) ==
    IF Len(bytes) - off < HeadLen THEN "header"
    ELSE IF DeclaredTooLong(bytes, off) THEN "payload"
    ELSE IF ~Decode(Slice(bytes, off + HeadLen,
                          IntOfUint64(Slice(bytes, off, HeadLen))), 0).ok
      THEN "undecodable"
    ELSE "none"

\* the offset after the first recCount records from off; -1 when one of
\* them is faulty
RECURSIVE RecordsEnd(_, _, _)
RecordsEnd(bytes, recCount, off) ==
    IF recCount <= 0 THEN off
    ELSE IF RecordFault(bytes, off) # "none" THEN -1
    ELSE RecordsEnd(bytes, recCount - 1,
                    off + HeadLen + IntOfUint64(Slice(bytes, off, HeadLen)))

\* the number of scalars in the payload of the (faultless) record at off
ScalarCount(bytes, off) ==
    Len(Decode(Slice(bytes, off + HeadLen,
                     IntOfUint64(Slice(bytes, off, HeadLen))), 0).vals)

RECURSIVE SumRecordLens(_)
SumRecordLens(rowSeq) ==
    IF rowSeq = <<>> THEN 0
    ELSE HeadLen + Len(RowBody(Head(rowSeq))) + SumRecordLens(Tail(rowSeq))

\* whether the first recCount records from off, up to the first faulty one,
\* each hold want scalars
RECURSIVE WellShaped(_, _, _, _)
WellShaped(bytes, recCount, off, want) ==
    IF recCount <= 0 \/ RecordFault(bytes, off) # "none" THEN TRUE
    ELSE /\ ScalarCount(bytes, off) = want
         /\ WellShaped(bytes, recCount - 1,
                       off + HeadLen + IntOfUint64(Slice(bytes, off, HeadLen)), want)

(***************************************************************************)
(* Properties.                                                             *)
(***************************************************************************)

\* C1: on a file as export wrote it, with header scale S, load(r) for r in
\* 0..100 succeeds and returns exactly floor(S * r / 100) rows, the first
\* rows written, in order.
C1_LoadReturnsFloorPrefix ==
    (Loaded /\ WellFormedFile /\ ratio \in 0..100) =>
        /\ res.st = "ok"
        /\ Len(res.data) = (HdrField(1) * ratio) \div 100
        /\ res.data = SubSeq(genRows, 1, Len(res.data))

\* C2: when the file is shorter than 24 bytes or a header field is not
\* positive, load fails having called decodeRow zero times and having read
\* the header only, and the error names the first offending field in the
\* order scale, keySize, valSize.
C2_HeaderRejectedBeforeRows ==
    (Loaded /\ fileExists /\ ~HeaderValid) =>
        /\ res.st = "error"
        /\ res.decodes = 0
        /\ res.data = <<>>
        /\ res.pos = Min(Len(fileBytes), MetaLen)
        /\ res.msg = IF Len(fileBytes) < MetaLen THEN "incorrect meta data"
                     ELSE IF HdrField(1) <= 0 THEN "number of rows must be positive"
                     ELSE IF HdrField(2) <= 0 THEN "key size must be positive"
                     ELSE "value size must be positive"

\* a load that was refused for its keySize although valSize is bad as well
C2_Witness ==
    /\ Loaded /\ fileExists /\ Len(fileBytes) >= MetaLen
    /\ HdrField(1) > 0 /\ HdrField(2) <= 0 /\ HdrField(3) <= 0
    /\ res.st = "error" /\ res.msg = "key size must be positive"
    /\ res.decodes = 0

\* C3: when one of the first totalRows records is faulty (its header is
\* shorter than 8 bytes, its payload shorter than the declared length, or
\* its payload undecodable), load returns an error and no rows, and decodes
\* nothing after the faulty record.  Stated for files whose records before
\* the faulty one hold keySize + valSize + 1 scalars each.
C3_FaultyRecordFailsLoad ==
    (/\ Loaded /\ fileExists /\ HeaderValid
     /\ RecordsEnd(fileBytes, res.totalRows, MetaLen) = -1
     /\ WellShaped(fileBytes, res.totalRows, MetaLen, HdrField(2) + HdrField(3) + 1)) =>
        /\ res.st = "error"
        /\ res.data = <<>>
        /\ res.decodes <= res.totalRows

\* C4: load called with a ratio outside 0..100 fails without opening the
\* file and returns no rows.
C4_BadRatioRejected ==
    (Loaded /\ ratio \notin 0..100) =>
        /\ res.st = "error"
        /\ ~res.opened
        /\ res.data = <<>>

\* C5: on a file as export wrote it, load(0) succeeds with no rows and no
\* record decoded, and load(100) succeeds with all S rows in write order.
C5_BoundaryRatios ==
    (Loaded /\ WellFormedFile) =>
        /\ ratio = 0 => res.st = "ok" /\ res.data = <<>> /\ res.decodes = 0
        /\ ratio = 100 => /\ res.st = "ok"
                          /\ res.data = genRows
                          /\ Len(res.data) = HdrField(1)

\* load(100) over the ten rows of the scale 10 dataset
C5_Witness ==
    /\ Loaded /\ WellFormedFile /\ ratio = 100
    /\ res.st = "ok" /\ Len(res.data) = 10 /\ res.data = genRows

\* C6: on a file as export wrote it, for r1 <= r2 in 0..100 load(r1)
\* returns at most as many rows as load(r2), and they are a prefix of them.
C6_RatioMonotone ==
    (Loaded /\ WellFormedFile /\ ratio \in 0..100) =>
        \A r1 \in 0..ratio :
            LET lower == load(TRUE, fileBytes, r1, DefaultGlobals).ret
            IN /\ lower.st = "ok"
               /\ res.st = "ok"
               /\ Len(lower.data) <= Len(res.data)
               /\ IsPrefix(lower.data, res.data)

\* a load that returns more rows than the load at the ratio below it
C6_Witness ==
    /\ Loaded /\ WellFormedFile /\ ratio \in 1..100 /\ res.st = "ok"
    /\ Len(res.data) >= 2
    /\ Len(load(TRUE, fileBytes, ratio - 1, DefaultGlobals).ret.data) < Len(res.data)

\* C7: the record encodeRow appended for a row with keySize keys and
\* valSize values is an 8-byte big-endian length equal to the number of
\* payload bytes, then the payload (keys, values, handle); decodeRow on it
\* returns the same keys, values and handle.
C7_RowRoundTrip ==
    (cmd = "gen" /\ pc = "export_rows" /\ expI > 1) =>
        LET row == genRows[expI - 1]
            off == RecordsEnd(outputBytes, expI - 2, MetaLen)
            dec == decodeRow(outputBytes, off, keySize, valSize)
        IN /\ off >= MetaLen
           /\ Len(row.key) = keySize
           /\ Len(row.val) = valSize
           /\ Slice(outputBytes, off, HeadLen)
                = PutUint64(Len(outputBytes) - (off + HeadLen))
           /\ Slice(outputBytes, off + HeadLen, Len(outputBytes) - (off + HeadLen))
                = EncodeKey(<<>>, row.key \o row.val \o <<[k |-> "int", b |-> row.handle]>>)
           /\ dec.st = "ok"
           /\ dec.pos = Len(outputBytes)
           /\ dec.row.key = row.key
           /\ dec.row.val = row.val
           /\ dec.row.handle = row.handle

\* a row of two keys and one value that differ, just encoded
C7_Witness ==
    /\ cmd = "gen" /\ pc = "export_rows" /\ expI > 1
    /\ keySize = 2 /\ valSize = 1
    /\ genRows[expI - 1].key[1] # genRows[expI - 1].val[1]
    /\ genRows[expI - 1].key[1] # genRows[expI - 1].key[2]
    /\ decodeRow(outputBytes, RecordsEnd(outputBytes, expI - 2, MetaLen),
                 keySize, valSize).st = "ok"

\* C8: when the payload of the first record holds a number of scalars other
\* than keySize + valSize + 1, load (through decodeRow) returns an error and
\* no row.
C8_ScalarCountChecked ==
    (/\ Loaded /\ fileExists /\ HeaderValid /\ res.totalRows >= 1
     /\ RecordFault(fileBytes, MetaLen) = "none"
     /\ ScalarCount(fileBytes, MetaLen) # HdrField(2) + HdrField(3) + 1) =>
        /\ res.st = "error"
        /\ res.data = <<>>

\* C9: after a successful load the file offset is 24 plus 8 + L for each of
\* the totalRows records decoded, decodeRow ran totalRows times, the bytes
\* past that offset have no part in the result, and a file that export
\* wrote still holds what export wrote.
C9_ReadFrame ==
    (Loaded /\ res.st = "ok") =>
        /\ res.decodes = (IF res.totalRows > 0 THEN res.totalRows ELSE 0)
        /\ res.pos = RecordsEnd(fileBytes, res.totalRows, MetaLen)
        /\ load(TRUE, SubSeq(fileBytes, 1, res.pos), ratio, DefaultGlobals).ret = res
        /\ ~tampered =>
              /\ Len(fileBytes) = MetaLen + SumRecordLens(genRows)
              /\ RecordsEnd(fileBytes, Len(genRows), MetaLen) = Len(fileBytes)

\* a successful load of a file whose next record, past the prefix, is faulty
C9_Witness ==
    /\ Loaded /\ res.st = "ok" /\ tampered
    /\ Len(res.data) >= 1
    /\ res.pos < Len(fileBytes)
    /\ RecordFault(fileBytes, res.pos) # "none"

\* C10: while export encodes, data.out is empty and nothing was written;
\* when export is over there was one write and data.out is the 24-byte
\* header of scale, keySize, valSize followed by exactly scale whole
\* records, 24 + sum of (8 + payload length) bytes in all.
C10_GeneratedFileShape ==
    /\ (cmd = "gen" /\ pc \in {"export_meta", "export_rows"}) =>
          fileExists /\ fileBytes = <<>> /\ written = <<>>
    /\ (cmd = "gen" /\ pc = "done") =>
          /\ fileExists
          /\ written = <<Len(fileBytes)>>
          /\ Len(fileBytes) >= MetaLen
          /\ Slice(fileBytes, 0, MetaLen)
               = PutUint64(scale) \o PutUint64(keySize) \o PutUint64(valSize)
          /\ Len(genRows) = scale
          /\ RecordsEnd(fileBytes, scale, MetaLen) = Len(fileBytes)
          /\ RecordFault(fileBytes, Len(fileBytes)) = "header"
          /\ Len(fileBytes) = MetaLen + SumRecordLens(genRows)

\* the scale 10, keySize 2, valSize 1 dataset: 24 + 10 * (8 + 36) bytes
C10_Witness ==
    /\ cmd = "gen" /\ pc = "done"
    /\ scale = 10 /\ keySize = 2 /\ valSize = 1
    /\ Len(fileBytes) = 464

====
